---- MODULE Spec2Model ----
(***************************************************************************)
(* ResQride browser client: the admin dashboard (request list, mechanic    *)
(* resolution, assignment, cancellation), the customer dashboard (feedback *)
(* gating) and the mechanic dashboard (job completion), as state machines  *)
(* driven by UI events and network responses.                              *)
(*                                                                         *)
(* Every React component is single-threaded: an action below is one event  *)
(* handler run, or one continuation of an async function after an await.   *)
(* A continuation keeps the values its closure captured when the handler   *)
(* was started (the `requests`, `mechanics`, `selection` of that render).  *)
(* A call the backend has answered is handed to its continuation before    *)
(* any other event is served (run to completion), except that the calls of *)
(* a Promise.all wait for each other.                                      *)
(*                                                                         *)
(* Not modelled: free-text fields (comment, location), toasts, the admin's *)
(* read-only feedback viewer, the payment modal and the mechanic's         *)
(* geolocation update.                                                     *)
(***************************************************************************)
EXTENDS Integers, Sequences, FiniteSets, TLC

VARIABLES
    requests,           \* AdminDashboard: RequestItem[]
    mechanics,          \* AdminDashboard: Mechanic[] (all-available pool)
    skilledMechanics,   \* AdminDashboard: Record<string, Mechanic[]>
    assigningId,        \* AdminDashboard: number | null
    isLoading,          \* AdminDashboard: boolean
    error,              \* AdminDashboard: string | null
    selection,          \* AdminDashboard: Record<number, number>
    loadPc,             \* AdminDashboard: position of fetchData
    custRequests,       \* Dashboard: requests
    paymentStatuses,    \* Dashboard: Record<number, any>
    mechanicsMap,       \* Dashboard: Record<number, string>
    ratingsMap,         \* Dashboard: Record<number, number>
    custIsLoading,      \* Dashboard: isLoading
    custError,          \* Dashboard: error
    feedbackRequest,    \* Dashboard: the request being rated (its id) | null
    rating,             \* Dashboard: number
    submittingFeedback, \* Dashboard: boolean
    custPc,             \* Dashboard: position of fetchRequests
    jobs,               \* MechanicDashboard: AssignedJob[]
    availability,       \* MechanicDashboard: string
    mechIsLoading,      \* MechanicDashboard: isLoading
    mechError,          \* MechanicDashboard: error
    mechPc,             \* MechanicDashboard: position of fetchJobs
    paymentRequest,     \* Dashboard: the request being paid (its id) | null
    isPaymentModalOpen, \* Dashboard: boolean
    step,               \* PaymentModal: 'SELECT' | 'PROCESSING' | 'SUCCESS'
    isAuthenticated,    \* authStore: boolean
    user,               \* authStore: User | null (its role)
    token,              \* authStore: string | null
    route,              \* the router's location
    pending             \* network calls in flight, each with what its continuation holds

adminVars == <<requests, mechanics, skilledMechanics, assigningId, isLoading,
               error, selection, loadPc>>
custVars == <<custRequests, paymentStatuses, mechanicsMap, ratingsMap, custIsLoading,
              custError, feedbackRequest, rating, submittingFeedback, custPc>>
mechVars == <<jobs, availability, mechIsLoading, mechError, mechPc>>
payVars == <<paymentRequest, isPaymentModalOpen, step>>
authVars == <<isAuthenticated, user, token, route>>
vars == <<adminVars, custVars, mechVars, payVars, authVars, pending>>

----------------------------------------------------------------------------
(* Bounds of the model *)

\* Requests the backend knows (ids 1..MaxRequests).
MaxRequests == 2
\* Mechanics in the all-available pool and in the skill-level lists.
MaxMechanics == 1
\* Calls the row actions of a page keep in flight at one time.
MaxPending == 2
\* Requests of the resolution specification.
MaxResolved == 1
\* Mechanics the distance-aware endpoints know, and the length of their answers.
MaxNearest == 4
MaxNearestLen == 3

----------------------------------------------------------------------------
(* Values *)

\* null / undefined / absent for ids (a JavaScript falsy number).
NoId == 0
\* error === null
NoError == "null"
\* distance == null
NoDistance == -1
\* latitude / longitude undefined
NoCoord == -1000
\* ratingsMap[id] undefined
NoRating == 0

\* user === null
NoUser == "null"
\* token === null
NoToken == "null"

\* user.role: the two roles the pages test for, and any other.
Roles == {"ADMIN", "MECHANIC", "USER"}

\* The routes of App.
AdminRoute == "/admin"
MechanicRoute == "/mechanic"
DashboardRoute == "/dashboard"
LoginRoute == "/login"

RequestIds == 1..MaxRequests
MechanicIds == 1..MaxMechanics

Statuses == {"CREATED", "PAYMENT_PENDING", "PAID", "ASSIGNED", "IN_PROGRESS",
             "COMPLETED", "CANCELLED"}

GetRequests == "GET /admin/requests"
GetAvailable == "GET /admin/mechanics/available"
GetSkill == "GET /admin/mechanics/available/skill/{skill}"
GetByCenter == "GET /admin/mechanics/available/skill/{skill}/nearest/by-center"
GetNearest == "GET /admin/mechanics/available/skill/{skill}/nearest"
PatchAssign == "PATCH /admin/assign"
PatchCancel == "PATCH /requests/{id}/status?status=CANCELLED"
GetRequestsMe == "GET /requests/me"
GetPaymentStatus == "GET /requests/{id}/payment-status"
GetPublicMechanic == "GET /mechanics/public/{id}"
GetFeedback == "GET /feedback/request/{id}"
PostFeedback == "POST /feedback"
GetMyRequests == "GET /mechanics/my-requests"
GetMe == "GET /mechanics/me"
PatchPaymentPending == "PATCH /requests/{id}/status?status=PAYMENT_PENDING"
PatchAvailability == "PATCH /mechanics/availability?status={status}"
PostPayments == "POST /payments"
PatchPaid == "PATCH /requests/{id}/status?status=PAID"

\* The answer of a call the backend has not answered yet.
NoAnswer == [status |-> "pending", isArray |-> FALSE, data |-> <<>>]
\* A rejected call (network error or non-2xx).
Failure == [status |-> "fail", isArray |-> FALSE, data |-> <<>>]
\* A call rejected with error.response.status === 401.
Unauthorized == [status |-> "fail", isArray |-> FALSE, data |-> <<>>, code |-> 401]
\* A 2xx answer whose body is an array.
OkArray(items) == [status |-> "ok", isArray |-> TRUE, data |-> items]
\* A 2xx answer whose body is one object.
OkObject(item) == [status |-> "ok", isArray |-> FALSE, data |-> <<item>>]
\* A 2xx answer whose body is absent (null).
OkOther == [status |-> "ok", isArray |-> FALSE, data |-> <<>>]

RequestItem(id, type, st, mech, mechId, lat, lon) ==
    [requestId |-> id, problemType |-> type, status |-> st, mechanic |-> mech,
     mechanicId |-> mechId, latitude |-> lat, longitude |-> lon]

Mechanic(id, skill, dist) == [id |-> id, skillType |-> skill, distance |-> dist]

\* A ServiceRequest of the customer dashboard; mechanicName stands for
\* mechanicName || mechanic?.name.
ServiceRequest(id, st, mechId, name, paid) ==
    [requestId |-> id, status |-> st, mechanicId |-> mechId, mechanicName |-> name,
     paid |-> paid]

AssignedJob(id, st) == [requestId |-> id, status |-> st]

----------------------------------------------------------------------------
(* Sequences *)

Range(s) == {s[i] : i \in DOMAIN s}

Map(s, Op(_)) == [i \in DOMAIN s |-> Op(s[i])]

\* Every sequence of at most n elements of U.
SeqsUpTo(U, n) == UNION {[1..k -> U] : k \in 0..n}

\* Array.prototype.sort with a consistent comparator is a stable sort: s[i] goes
\* after the elements that compare before it and after the equal ones that
\* precede it in s.  Cmp(a, b) < 0 puts a first.
StableSort(s, Cmp(_, _)) ==
    LET rank(i) == 1 + Cardinality({j \in DOMAIN s :
                        \/ Cmp(s[j], s[i]) < 0
                        \/ (Cmp(s[j], s[i]) = 0 /\ j < i)})
    IN [k \in DOMAIN s |-> s[CHOOSE i \in DOMAIN s : rank(i) = k]]

Orderings(s) ==
    {[i \in DOMAIN s |-> s[p[i]]] :
        p \in {q \in [DOMAIN s -> DOMAIN s] : \A i, j \in DOMAIN s : q[i] = q[j] => i = j}}

\* The first occurrence of each value of s, in order (Array.from(new Set(...))).
RECURSIVE Unique(_)
Unique(s) ==
    IF s = <<>> THEN <<>>
    ELSE LET rest == Unique(SubSeq(s, 1, Len(s) - 1))
         IN IF s[Len(s)] \in Range(rest) THEN rest ELSE Append(rest, s[Len(s)])

byRequestIdDesc(a, b) == b.requestId - a.requestId

----------------------------------------------------------------------------
(* AdminDashboard: pure functions *)

\* A mapping that passes every problem type through.
passThroughSkill(problemType) == problemType

mapProblemTypeToSkill(problemType) ==
    CASE problemType = "TOWING" -> "TOWING"
      [] problemType = "TIRE_CHANGE" -> "TIRE_SPECIALIST"
      [] problemType = "BATTERY" -> "BATTERY_EXPERT"
      [] problemType = "LOCKOUT" -> "LOCKSMITH"
      [] problemType = "MECHANIC" -> "GENERAL_MECHANIC"
      [] problemType = "FUEL" -> "GENERAL_MECHANIC"
      [] OTHER -> problemType

\* String.prototype.replace('_', ' '): the first underscore only.  Given for the
\* status strings of the model.
ReplaceUnderscore(status) ==
    CASE status = "IN_PROGRESS" -> "IN PROGRESS"
      [] status = "PAYMENT_PENDING" -> "PAYMENT PENDING"
      [] OTHER -> status

\* AdminDashboard's getStatusLabel.
getStatusLabel(status) ==
    CASE status = "PAYMENT_PENDING" -> "Unassigned"
      [] status = "CREATED" -> "Unassigned"
      [] OTHER -> ReplaceUnderscore(status)

\* 0.01 km, distances being held in metres.
Epsilon == 10

Abs(x) == IF x < 0 THEN -x ELSE x

\* The comparator given to sort for the nearest lists (both copies are the same).
compareMechanics(a, b) ==
    IF a.distance = NoDistance /\ b.distance = NoDistance THEN a.id - b.id
    ELSE IF a.distance = NoDistance THEN 1
    ELSE IF b.distance = NoDistance THEN -1
    ELSE IF Abs(a.distance - b.distance) < Epsilon THEN a.id - b.id
    ELSE a.distance - b.distance

Sign(x) == IF x < 0 THEN -1 ELSE IF x > 0 THEN 1 ELSE 0

\* ECMAScript's "consistent comparator" over the values being sorted.
ConsistentOn(S, Cmp(_, _)) ==
    /\ \A a, b \in S : Sign(Cmp(a, b)) = -Sign(Cmp(b, a))
    /\ \A a, b, c \in S :
        /\ (Cmp(a, b) = 0 /\ Cmp(b, c) = 0) => Cmp(a, c) = 0
        /\ (Cmp(a, b) < 0 /\ Cmp(b, c) < 0) => Cmp(a, c) < 0
        /\ (Cmp(a, b) < 0 /\ Cmp(b, c) = 0) => Cmp(a, c) < 0
        /\ (Cmp(a, b) = 0 /\ Cmp(b, c) < 0) => Cmp(a, c) < 0

\* data.sort(compareMechanics): the stable sort when the comparator is consistent
\* over the data; otherwise the order is implementation-defined (any order).
sortMechanics(data) ==
    IF ConsistentOn(Range(data), compareMechanics)
    THEN {StableSort(data, compareMechanics)}
    ELSE Orderings(data)

\* A cache keyed by the problem type alone.
problemTypeKey(r) == r.problemType

\* `${request.problemType}_${request.requestId}`
requestKey(r) == r.problemType \o "_" \o ToString(r.requestId)

\* mechanics.find(m => m.id === mechanicId) || null, as the id of what is found.
findMechanic(pool, mechanicId) ==
    IF \E i \in DOMAIN pool : pool[i].id = mechanicId THEN mechanicId ELSE NoId

\* skilledMechanics[key] || skilledMechanics[problemType] || []  (an empty array
\* is truthy, a missing key is undefined).
dropdownOptions(sm, r) ==
    IF requestKey(r) \in DOMAIN sm THEN sm[requestKey(r)]
    ELSE IF r.problemType \in DOMAIN sm THEN sm[r.problemType]
    ELSE <<>>

\* The component renders the table only when it is neither loading nor in error.
Rendered == route = AdminRoute /\ ~isLoading /\ error = NoError

\* The Assign button's `disabled` expression.
assignDisabled(r) ==
    \/ r.mechanic # NoId
    \/ r.status = "IN_PROGRESS"
    \/ r.status = "ASSIGNED"
    \/ selection[r.requestId] = NoId
    \/ assigningId = r.requestId

AssignOffered(r) == Rendered /\ ~assignDisabled(r)

----------------------------------------------------------------------------
(* The network *)

\* What an endpoint that returns a list may answer.
ListAnswers(Lists) == {Failure, OkOther} \cup {OkArray(l) : l \in Lists}

\* What an endpoint whose body is not read may answer.
PlainAnswers == {Failure, OkOther}

arrayOrEmpty(res) == IF res.status = "ok" /\ res.isArray THEN res.data ELSE <<>>

InFlight(k) == {p \in pending : p.k = k}
Settled(p) == p.res.status # "pending"

\* Calls awaited through Promise.all: their continuation waits for the batch.
BatchKinds == {"requests", "available", "skill", "paymentStatus", "publicMechanic",
               "feedbackGet", "myRequests", "me"}

\* Timers (setTimeout): they are in flight until they fire and have no answer.
TimerKinds == {"payDelay", "payClose"}

\* An answered call whose continuation has not run yet.
ContinuationDue == \E p \in pending : Settled(p) /\ p.k \notin BatchKinds

\* The guard of AdminDashboard's and MechanicDashboard's effect and of
\* DashboardRoute sends the page elsewhere; it runs with the render that follows
\* a change of the auth store.
RedirectDue ==
    \/ route = AdminRoute /\ (~isAuthenticated \/ user # "ADMIN")
    \/ route = MechanicRoute /\ (~isAuthenticated \/ user # "MECHANIC")
    \/ route = DashboardRoute /\ (~isAuthenticated \/ user \in {"MECHANIC", "ADMIN"})

\* The event loop is free to serve a UI event or a network answer.
Idle == ~ContinuationDue /\ ~RedirectDue

\* A row action can send a call while fewer than MaxPending are in flight.
CanSend == Cardinality(pending) < MaxPending
NewId == CHOOSE id \in 1..MaxPending :
            /\ \A p \in pending : p.id # id
            /\ \A other \in 1..(id - 1) : \E p \in pending : p.id = other

\* An interceptor that lets a 401 pass.
ignores401(res) == FALSE

\* error.response?.status === 401
is401(res) == res = Unauthorized

\* The backend answers a call in flight; Answers is what it may answer to p.
\* The response interceptor runs before the promise of the call settles: on a
\* 401 it calls logout().
Respond(p, Answers) ==
    /\ Idle
    /\ p \in pending
    /\ p.k \notin TimerKinds
    /\ ~Settled(p)
    /\ \E res \in Answers :
          /\ pending' = (pending \ {p}) \cup {[p EXCEPT !.res = res]}
          /\ IF is401(res)
             THEN /\ isAuthenticated' = FALSE
                  /\ user' = NoUser
                  /\ token' = NoToken
                  /\ UNCHANGED route
             ELSE UNCHANGED authVars
    /\ UNCHANGED <<adminVars, custVars, mechVars, payVars>>

\* The guard of AdminDashboard's effect: navigate('/login').
AdminAuthGuard ==
    /\ route = AdminRoute
    /\ ~isAuthenticated \/ user # "ADMIN"
    /\ route' = LoginRoute
    /\ UNCHANGED <<isAuthenticated, user, token, pending>>
    /\ UNCHANGED <<adminVars, custVars, mechVars, payVars>>

\* The guard of MechanicDashboard's effect: navigate('/login').
MechAuthGuard ==
    /\ route = MechanicRoute
    /\ ~isAuthenticated \/ user # "MECHANIC"
    /\ route' = LoginRoute
    /\ UNCHANGED <<isAuthenticated, user, token, pending>>
    /\ UNCHANGED <<adminVars, custVars, mechVars, payVars>>

\* DashboardRoute: <Navigate> to the login route or to the page of the role.
DashboardRouteGuard ==
    /\ route = DashboardRoute
    /\ ~isAuthenticated \/ user \in {"MECHANIC", "ADMIN"}
    /\ route' = IF ~isAuthenticated THEN LoginRoute
                ELSE IF user = "MECHANIC" THEN MechanicRoute
                ELSE AdminRoute
    /\ UNCHANGED <<isAuthenticated, user, token, pending>>
    /\ UNCHANGED <<adminVars, custVars, mechVars, payVars>>

\* The auth store after a login, and the page the browser is at.
AuthInit ==
    /\ isAuthenticated = TRUE
    /\ user \in Roles
    /\ token = "jwt"
    /\ route \in {AdminRoute, MechanicRoute, DashboardRoute}

----------------------------------------------------------------------------
(* AdminDashboard: the initial load (useEffect / fetchData) *)

AdminInit ==
    /\ requests = <<>>
    /\ mechanics = <<>>
    /\ skilledMechanics = <<>>
    /\ assigningId = NoId
    /\ isLoading = TRUE
    /\ error = NoError
    /\ selection = [id \in RequestIds |-> NoId]
    /\ loadPc = "init"

problemTypeOf(r) == r.problemType
isTruthyString(str) == str # ""

\* uniqueProblemTypes, less the ones the map's callback returns early on.
skillTypes(sortedRequests) ==
    SelectSeq(Unique(Map(sortedRequests, problemTypeOf)), isTruthyString)

\* The effect runs after the first render and starts fetchData, which sends the
\* two calls of its Promise.all.
Mount ==
    /\ route = AdminRoute
    /\ isAuthenticated /\ user = "ADMIN"
    /\ loadPc = "init"
    /\ loadPc' = "batch"
    /\ pending' = {[id |-> 1, k |-> "requests", ep |-> GetRequests, res |-> NoAnswer],
                   [id |-> 2, k |-> "available", ep |-> GetAvailable, res |-> NoAnswer]}
    /\ UNCHANGED <<requests, mechanics, skilledMechanics, assigningId, isLoading,
                   error, selection>>
    /\ UNCHANGED <<custVars, mechVars, payVars, authVars>>

\* A mechanics call without its catch.
noCatch(res) == res

\* .catch(err => ({ data: [] })) on the available-mechanics call.
mechanicsCatch(res) == IF res.status = "fail" THEN OkArray(<<>>) ELSE res

\* Promise.all rejects as soon as one of its promises is rejected: the requests
\* call has no catch of its own.  fetchData's catch and finally run.
FetchDataRejected ==
    /\ loadPc = "batch"
    /\ \E call \in InFlight("requests") \cup InFlight("available") :
        /\ \/ call.k = "requests" /\ call.res.status = "fail"
           \/ call.k = "available" /\ mechanicsCatch(call.res).status = "fail"
        /\ pending' = pending \ {call}
    /\ error' = "Failed to load admin data"
    /\ isLoading' = FALSE
    /\ loadPc' = "done"
    /\ UNCHANGED <<requests, mechanics, skilledMechanics, assigningId, selection>>
    /\ UNCHANGED <<custVars, mechVars, payVars, authVars>>

\* A call of the batch settles after Promise.all was rejected: nobody reads it.
AvailableSettledLate ==
    /\ loadPc = "done"
    /\ \E call \in InFlight("requests") \cup InFlight("available") :
        /\ Settled(call)
        /\ pending' = pending \ {call}
    /\ UNCHANGED <<adminVars, custVars, mechVars, payVars, authVars>>

\* Promise.all resolves: setRequests, setMechanics, then one skill-only call per
\* problem type.
FetchDataBatchDone ==
    /\ loadPc = "batch"
    /\ \E reqCall \in InFlight("requests"), mechCall \in InFlight("available") :
        /\ reqCall.res.status = "ok"
        /\ mechanicsCatch(mechCall.res).status = "ok"
        /\ LET sortedRequests ==
                  IF reqCall.res.isArray
                  THEN StableSort(reqCall.res.data, byRequestIdDesc) ELSE <<>>
               availableMechanics == arrayOrEmpty(mechanicsCatch(mechCall.res))
               types == skillTypes(sortedRequests)
           IN /\ requests' = sortedRequests
              /\ mechanics' = availableMechanics
              /\ pending' =
                    {[id |-> i, k |-> "skill", ep |-> GetSkill, type |-> types[i],
                      skill |-> mapProblemTypeToSkill(types[i]), res |-> NoAnswer] :
                        i \in 1..Len(types)}
    /\ loadPc' = "skills"
    /\ UNCHANGED <<skilledMechanics, assigningId, isLoading, error, selection>>
    /\ UNCHANGED <<custVars, mechVars, payVars, authVars>>

\* .catch(() => ({ data: [] })) on a skill-only call.
skillCatch(res) == IF res.status = "fail" THEN OkArray(<<>>) ELSE res

\* What the skill-only call of one problem type leaves in skillMap: the answer if
\* it is an array; in the callback's catch block, the pool filtered by skill.
skillMapEntry(res, availableMechanics, type) ==
    IF skillCatch(res).status = "fail"
    THEN LET hasSkill(m) == m.skillType = mapProblemTypeToSkill(type)
         IN SelectSeq(availableMechanics, hasSkill)
    ELSE arrayOrEmpty(skillCatch(res))

\* The inner Promise.all settles; setSkilledMechanics(skillMap); finally.
FetchDataSkillsDone ==
    /\ loadPc = "skills"
    /\ \A p \in pending : Settled(p)
    /\ skilledMechanics' =
          [t \in {p.type : p \in pending} |->
              skillMapEntry((CHOOSE p \in pending : p.type = t).res, mechanics, t)]
    /\ pending' = {}
    /\ isLoading' = FALSE
    /\ loadPc' = "done"
    /\ UNCHANGED <<requests, mechanics, assigningId, error, selection>>
    /\ UNCHANGED <<custVars, mechVars, payVars, authVars>>

\* The Retry button of the error view: window.location.reload().
Reload ==
    /\ Idle
    /\ route = AdminRoute
    /\ ~isLoading
    /\ error # NoError
    /\ requests' = <<>>
    /\ mechanics' = <<>>
    /\ skilledMechanics' = <<>>
    /\ assigningId' = NoId
    /\ isLoading' = TRUE
    /\ error' = NoError
    /\ selection' = [id \in RequestIds |-> NoId]
    /\ loadPc' = "init"
    /\ pending' = {}
    /\ UNCHANGED <<custVars, mechVars, payVars, authVars>>

----------------------------------------------------------------------------
(* AdminDashboard: the row actions *)

optionIds(r) == {NoId} \cup {m.id : m \in Range(dropdownOptions(skilledMechanics, r))}

\* <select onChange>: an option of the row's dropdown, or "Select mechanic" ('').
SetSelection(i) ==
    /\ Rendered
    /\ Idle
    /\ i \in DOMAIN requests
    /\ \E m \in optionIds(requests[i]) :
        /\ m # selection[requests[i].requestId]
        /\ selection' = [selection EXCEPT ![requests[i].requestId] = m]
    /\ UNCHANGED <<requests, mechanics, skilledMechanics, assigningId, isLoading,
                   error, loadPc, pending>>
    /\ UNCHANGED <<custVars, mechVars, payVars, authVars>>

\* assignRequest up to its await.  The closure keeps this render's requests,
\* mechanics and selection.
AssignRequest(i) ==
    /\ Rendered
    /\ Idle
    /\ CanSend
    /\ i \in DOMAIN requests
    /\ ~assignDisabled(requests[i])
    /\ LET requestId == requests[i].requestId
           mechanicId == selection[requestId]
       IN /\ mechanicId # NoId
          /\ assigningId' = requestId
          /\ pending' = pending \cup
                {[id |-> NewId, k |-> "assign", ep |-> PatchAssign,
                  requestId |-> requestId, mechanicId |-> mechanicId,
                  requests |-> requests, mechanics |-> mechanics, res |-> NoAnswer]}
    /\ UNCHANGED <<requests, mechanics, skilledMechanics, isLoading, error,
                   selection, loadPc>>
    /\ UNCHANGED <<custVars, mechVars, payVars, authVars>>

\* requests.map(...) of assignRequest, over the requests the closure holds.
assignedList(reqs, pool, requestId, mechanicId) ==
    [j \in DOMAIN reqs |->
        IF reqs[j].requestId = requestId
        THEN [reqs[j] EXCEPT !.mechanic = findMechanic(pool, mechanicId),
                             !.status = "IN_PROGRESS"]
        ELSE reqs[j]]

\* An assignRequest that stores its update whatever the call answered.
storesAlways(res, current, updated) == updated

\* The try block of assignRequest: setRequests(updated) is reached only when the
\* awaited call did not throw.
storedAfterAssign(res, current, updated) ==
    IF res.status = "ok" THEN updated ELSE current

\* assignRequest after its await: try / catch / finally.
AssignResponse(p) ==
    /\ p \in InFlight("assign")
    /\ Settled(p)
    /\ pending' = pending \ {p}
    /\ assigningId' = NoId
    /\ requests' = storedAfterAssign(p.res, requests,
                        assignedList(p.requests, p.mechanics, p.requestId, p.mechanicId))
    /\ error' = IF p.res.status = "ok" THEN error ELSE "Failed to assign request"
    /\ UNCHANGED <<mechanics, skilledMechanics, isLoading, selection, loadPc>>
    /\ UNCHANGED <<custVars, mechVars, payVars, authVars>>

\* cancelRequest up to its await.
CancelRequest(i) ==
    /\ Rendered
    /\ Idle
    /\ CanSend
    /\ i \in DOMAIN requests
    /\ pending' = pending \cup
          {[id |-> NewId, k |-> "cancel", ep |-> PatchCancel,
            requestId |-> requests[i].requestId, requests |-> requests,
            res |-> NoAnswer]}
    /\ UNCHANGED <<adminVars, custVars, mechVars, payVars, authVars>>

\* requests.map(...) of cancelRequest, over the requests the closure holds.
cancelledList(reqs, requestId) ==
    [j \in DOMAIN reqs |->
        IF reqs[j].requestId = requestId
        THEN [reqs[j] EXCEPT !.status = "CANCELLED"]
        ELSE reqs[j]]

\* cancelRequest after its await: try / catch.
CancelResponse(p) ==
    /\ p \in InFlight("cancel")
    /\ Settled(p)
    /\ pending' = pending \ {p}
    /\ IF p.res.status = "ok"
       THEN /\ requests' = cancelledList(p.requests, p.requestId)
            /\ UNCHANGED error
       ELSE /\ error' = "Failed to cancel request"
            /\ UNCHANGED requests
    /\ UNCHANGED <<mechanics, skilledMechanics, assigningId, isLoading, selection,
                   loadPc>>
    /\ UNCHANGED <<custVars, mechVars, payVars, authVars>>

----------------------------------------------------------------------------
(* AdminDashboard: nearest-mechanic resolution (fetchNearestMechanics) *)

\* !request.latitude: undefined and 0 are both falsy.
isTruthyNumber(x) == x # NoCoord /\ x # 0

\* Whether fetchNearestMechanics goes past its first line.
resolvesByDistance(request) ==
    isTruthyNumber(request.latitude) /\ isTruthyNumber(request.longitude)

\* `first` is bookkeeping, not a field of the program: whether, at the click that
\* started the resolution, no list was stored for the request and no other
\* resolution of the request was in flight.
NearestCall(id, k, ep, request, first) ==
    [id |-> id, k |-> k, ep |-> ep, request |-> request,
     skill |-> mapProblemTypeToSkill(request.problemType),
     latitude |-> request.latitude, longitude |-> request.longitude,
     first |-> first, res |-> NoAnswer]

\* <select onClick>: fetchNearestMechanics up to its first await.
FetchNearestMechanics(i) ==
    /\ Rendered
    /\ Idle
    /\ CanSend
    /\ i \in DOMAIN requests
    /\ resolvesByDistance(requests[i])
    /\ pending' = pending \cup
          {NearestCall(NewId, "byCenter", GetByCenter, requests[i],
                       /\ requestKey(requests[i]) \notin DOMAIN skilledMechanics
                       /\ \A q \in InFlight("byCenter") \cup InFlight("nearest") :
                             q.request.requestId # requests[i].requestId)}
    /\ UNCHANGED <<adminVars, custVars, mechVars, payVars, authVars>>

\* setSkilledMechanics(prev => ({ ...prev, [key]: sorted }))
storeNearest(sm, request, sorted) ==
    [key \in DOMAIN sm \cup {requestKey(request)} |->
        IF key = requestKey(request) THEN sorted ELSE sm[key]]

\* A resolution that treats a failed center-aware query as an empty answer.
neverFallsBack(res) == FALSE

\* Whether the by-center answer sends the resolution to its catch block.
byCenterFallsBack(res) == res.status = "fail"

\* fetchNearestMechanics after the by-center await: store the sorted answer, or
\* (catch) send the plain-nearest call.
ByCenterResponse(p) ==
    /\ p \in InFlight("byCenter")
    /\ Settled(p)
    /\ IF byCenterFallsBack(p.res)
       THEN /\ pending' = (pending \ {p}) \cup
                            {NearestCall(p.id, "nearest", GetNearest, p.request, p.first)}
            /\ UNCHANGED skilledMechanics
       ELSE /\ pending' = pending \ {p}
            /\ IF p.res.isArray
               THEN \E sorted \in sortMechanics(p.res.data) :
                       skilledMechanics' = storeNearest(skilledMechanics, p.request, sorted)
               ELSE UNCHANGED skilledMechanics
    /\ UNCHANGED <<requests, mechanics, assigningId, isLoading, error, selection, loadPc>>
    /\ UNCHANGED <<custVars, mechVars, payVars, authVars>>

\* fetchNearestMechanics after the fallback await: its inner try / catch.
NearestResponse(p) ==
    /\ p \in InFlight("nearest")
    /\ Settled(p)
    /\ pending' = pending \ {p}
    /\ IF p.res.status = "ok" /\ p.res.isArray
       THEN \E sorted \in sortMechanics(p.res.data) :
               skilledMechanics' = storeNearest(skilledMechanics, p.request, sorted)
       ELSE UNCHANGED skilledMechanics
    /\ UNCHANGED <<requests, mechanics, assigningId, isLoading, error, selection, loadPc>>
    /\ UNCHANGED <<custVars, mechVars, payVars, authVars>>

----------------------------------------------------------------------------
(* Dashboard (customer): pure functions and the action cell *)

\* Dashboard's getStatusLabel.
getStatusLabelCustomer(status) ==
    CASE status = "" -> "Unknown"
      [] status = "ASSIGNED" -> "Mechanic Assigned"
      [] status = "COMPLETED" -> "Service Completed"
      [] status = "IN_PROGRESS" -> "Work in Progress"
      [] status = "CREATED" -> "Request Received"
      [] status = "PAYMENT_PENDING" -> "Payment Pending"
      [] status = "PAID" -> "Payment Received"
      [] status = "CANCELLED" -> "Cancelled"
      [] OTHER -> ReplaceUnderscore(status)

\* The body of GET /requests/{id}/payment-status.
PaymentStatus(paid, payable) == [isPaid |-> paid, canPay |-> payable]

CustRendered == route = DashboardRoute /\ ~custIsLoading /\ custError = NoError

\* pStatus is truthy.
hasPaymentStatus(r) == r.requestId \in DOMAIN paymentStatuses

isPaid(r) ==
    \/ hasPaymentStatus(r) /\ paymentStatuses[r.requestId].isPaid
    \/ r.status = "COMPLETED"
    \/ r.status = "PAID"
    \/ r.paid

canPay(r) ==
    /\ ~isPaid(r)
    /\ \/ hasPaymentStatus(r) /\ paymentStatuses[r.requestId].canPay
       \/ ~hasPaymentStatus(r) /\ r.status = "PAYMENT_PENDING"

\* What the last cell of a row renders.
actionCell(r) ==
    IF isPaid(r)
    THEN IF ratingsMap[r.requestId] # NoRating
         THEN [kind |-> "rated", text |-> ToString(ratingsMap[r.requestId]) \o " / 5"]
         ELSE [kind |-> "rate", text |-> "Rate"]
    ELSE IF canPay(r) THEN [kind |-> "pay", text |-> "Pay"]
    ELSE IF r.status = "ASSIGNED" \/ r.status = "IN_PROGRESS"
         THEN [kind |-> "none", text |-> "In Progress"]
    ELSE [kind |-> "none", text |-> "Pending Assignment"]

RateOffered(r) == CustRendered /\ actionCell(r).kind = "rate"
PayOffered(r) == CustRendered /\ actionCell(r).kind = "pay"

----------------------------------------------------------------------------
(* Dashboard (customer): the initial load (useEffect / fetchRequests) *)

CustInit ==
    /\ custRequests = <<>>
    /\ paymentStatuses = <<>>
    /\ mechanicsMap = <<>>
    /\ ratingsMap = [id \in RequestIds |-> NoRating]
    /\ custIsLoading = TRUE
    /\ custError = NoError
    /\ feedbackRequest = NoId
    /\ rating = 0
    /\ submittingFeedback = FALSE
    /\ custPc = "init"
    /\ paymentRequest = NoId
    /\ isPaymentModalOpen = FALSE
    /\ step = "SELECT"

CustMount ==
    /\ route = DashboardRoute
    /\ isAuthenticated /\ user \notin {"MECHANIC", "ADMIN"}
    /\ custPc = "init"
    /\ custPc' = "me"
    /\ pending' = {[id |-> 1, k |-> "requestsMe", ep |-> GetRequestsMe, res |-> NoAnswer]}
    /\ UNCHANGED <<custRequests, paymentStatuses, mechanicsMap, ratingsMap, custIsLoading,
                   custError, feedbackRequest, rating, submittingFeedback>>
    /\ UNCHANGED <<adminVars, mechVars, payVars, authVars>>

\* After the first await: data.sort throws unless the body is an array; the
\* payment-status lookups are sent, one per request.
CustRequestsResponse(p) ==
    /\ custPc = "me"
    /\ p \in InFlight("requestsMe")
    /\ Settled(p)
    /\ IF p.res.status = "ok" /\ p.res.isArray
       THEN LET data == StableSort(p.res.data, byRequestIdDesc)
            IN /\ custRequests' = data
               /\ pending' = {[id |-> i, k |-> "paymentStatus", ep |-> GetPaymentStatus,
                               requestId |-> data[i].requestId, res |-> NoAnswer] :
                                 i \in DOMAIN data}
               /\ custPc' = "payment"
               /\ UNCHANGED <<custError, custIsLoading>>
       ELSE /\ custError' = "Failed to load dashboard data"
            /\ custIsLoading' = FALSE
            /\ custPc' = "done"
            /\ pending' = {}
            /\ UNCHANGED custRequests
    /\ UNCHANGED <<paymentStatuses, mechanicsMap, ratingsMap, feedbackRequest, rating,
                   submittingFeedback>>
    /\ UNCHANGED <<adminVars, mechVars, payVars, authVars>>

isCompletedOrPaid(r) == r.status = "COMPLETED" \/ r.status = "PAID"
lacksMechanicName(r) == r.mechanicId # NoId /\ r.mechanicName = ""
mechanicIdOf(r) == r.mechanicId

\* The rest of fetchRequests from "Fetch ratings for completed/paid requests":
\* the feedback lookups are sent, or the load ends.
StartRatings ==
    LET completedRequests == SelectSeq(custRequests, isCompletedOrPaid)
    IN IF completedRequests # <<>>
       THEN /\ pending' = {[id |-> i, k |-> "feedbackGet", ep |-> GetFeedback,
                            requestId |-> completedRequests[i].requestId,
                            res |-> NoAnswer] : i \in DOMAIN completedRequests}
            /\ custPc' = "ratings"
            /\ UNCHANGED custIsLoading
       ELSE /\ pending' = {}
            /\ custPc' = "done"
            /\ custIsLoading' = FALSE

\* statusMap: an entry for every lookup that answered with a (truthy) body.
statusMapOf(calls) ==
    LET answered == {p \in calls : p.res.status = "ok" /\ p.res.data # <<>>}
    IN [id \in {p.requestId : p \in answered} |->
            (CHOOSE p \in answered : p.requestId = id).res.data[1]]

\* The payment-status lookups have settled: setPaymentStatuses, then the
\* mechanic-name lookups if some request has a mechanicId and no name.
CustPaymentStatusesDone ==
    /\ custPc = "payment"
    /\ \A p \in pending : Settled(p)
    /\ paymentStatuses' = statusMapOf(pending)
    /\ LET mechanicIds == Unique(Map(SelectSeq(custRequests, lacksMechanicName),
                                     mechanicIdOf))
       IN IF mechanicIds # <<>>
          THEN /\ pending' = {[id |-> i, k |-> "publicMechanic", ep |-> GetPublicMechanic,
                               mechanicId |-> mechanicIds[i], res |-> NoAnswer] :
                                 i \in DOMAIN mechanicIds}
               /\ custPc' = "names"
               /\ UNCHANGED custIsLoading
          ELSE StartRatings
    /\ UNCHANGED <<custRequests, mechanicsMap, ratingsMap, custError, feedbackRequest,
                   rating, submittingFeedback>>
    /\ UNCHANGED <<adminVars, mechVars, payVars, authVars>>

\* names: an entry for every lookup that answered with a body (mechRes.data.name
\* throws on a null body, inside the lookup's own try).
namesOf(calls) ==
    LET answered == {p \in calls : p.res.status = "ok" /\ p.res.data # <<>>}
    IN [id \in {p.mechanicId : p \in answered} |->
            (CHOOSE p \in answered : p.mechanicId = id).res.data[1]]

CustNamesDone ==
    /\ custPc = "names"
    /\ \A p \in pending : Settled(p)
    /\ mechanicsMap' = namesOf(pending)
    /\ StartRatings
    /\ UNCHANGED <<custRequests, paymentStatuses, ratingsMap, custError, feedbackRequest,
                   rating, submittingFeedback>>
    /\ UNCHANGED <<adminVars, mechVars, payVars, authVars>>

\* ratings: feedbackRes.data[0].rating of every lookup that answered with a
\* non-empty array.
ratingsOf(calls) ==
    LET answered == {p \in calls : p.res.status = "ok" /\ p.res.isArray /\ p.res.data # <<>>}
    IN [id \in RequestIds |->
            IF \E p \in answered : p.requestId = id
            THEN (CHOOSE p \in answered : p.requestId = id).res.data[1]
            ELSE NoRating]

CustRatingsDone ==
    /\ custPc = "ratings"
    /\ \A p \in pending : Settled(p)
    /\ ratingsMap' = ratingsOf(pending)
    /\ pending' = {}
    /\ custIsLoading' = FALSE
    /\ custPc' = "done"
    /\ UNCHANGED <<custRequests, paymentStatuses, mechanicsMap, custError, feedbackRequest,
                   rating, submittingFeedback>>
    /\ UNCHANGED <<adminVars, mechVars, payVars, authVars>>

\* The Retry button of the error view: window.location.reload().
CustReload ==
    /\ Idle
    /\ route = DashboardRoute
    /\ ~custIsLoading
    /\ custError # NoError
    /\ custRequests' = <<>>
    /\ paymentStatuses' = <<>>
    /\ mechanicsMap' = <<>>
    /\ ratingsMap' = [id \in RequestIds |-> NoRating]
    /\ custIsLoading' = TRUE
    /\ custError' = NoError
    /\ feedbackRequest' = NoId
    /\ rating' = 0
    /\ submittingFeedback' = FALSE
    /\ custPc' = "init"
    /\ pending' = {}
    /\ paymentRequest' = NoId
    /\ isPaymentModalOpen' = FALSE
    /\ step' = "SELECT"
    /\ UNCHANGED <<adminVars, mechVars, authVars>>

----------------------------------------------------------------------------
(* Dashboard (customer): feedback *)

\* The stars of the feedback form.
Stars == {1, 2, 3, 4, 5}

\* The Rate button of a row.  The modal's overlay does not take the buttons
\* behind it out of the tab order, so the button works while a modal is open.
OpenFeedback(i) ==
    /\ Idle
    /\ i \in DOMAIN custRequests
    /\ RateOffered(custRequests[i])
    /\ feedbackRequest' = custRequests[i].requestId
    /\ rating' = 5
    /\ UNCHANGED <<custRequests, paymentStatuses, mechanicsMap, ratingsMap, custIsLoading,
                   custError, submittingFeedback, custPc, pending>>
    /\ UNCHANGED <<adminVars, mechVars, payVars, authVars>>

\* A star of the open form.
SetRating(star) ==
    /\ Idle
    /\ CustRendered
    /\ feedbackRequest # NoId
    /\ star \in Stars
    /\ star # rating
    /\ rating' = star
    /\ UNCHANGED <<custRequests, paymentStatuses, mechanicsMap, ratingsMap, custIsLoading,
                   custError, feedbackRequest, submittingFeedback, custPc, pending>>
    /\ UNCHANGED <<adminVars, mechVars, payVars, authVars>>

\* The X and Cancel buttons of the form: setFeedbackRequest(null).
CloseFeedback ==
    /\ Idle
    /\ CustRendered
    /\ feedbackRequest # NoId
    /\ feedbackRequest' = NoId
    /\ UNCHANGED <<custRequests, paymentStatuses, mechanicsMap, ratingsMap, custIsLoading,
                   custError, rating, submittingFeedback, custPc, pending>>
    /\ UNCHANGED <<adminVars, mechVars, payVars, authVars>>

\* submitFeedback up to its await; the submit button is disabled while
\* submittingFeedback.  The closure keeps feedbackRequest and rating.
SubmitFeedback ==
    /\ Idle
    /\ CustRendered
    /\ CanSend
    /\ feedbackRequest # NoId
    /\ ~submittingFeedback
    /\ submittingFeedback' = TRUE
    /\ pending' = pending \cup
          {[id |-> NewId, k |-> "feedbackPost", ep |-> PostFeedback,
            requestId |-> feedbackRequest, rating |-> rating, res |-> NoAnswer]}
    /\ UNCHANGED <<custRequests, paymentStatuses, mechanicsMap, ratingsMap, custIsLoading,
                   custError, feedbackRequest, rating, custPc>>
    /\ UNCHANGED <<adminVars, mechVars, payVars, authVars>>

\* A submission whose success is not recorded.
withoutRating(prev, requestId, k) == prev

\* setRatingsMap(prev => ({ ...prev, [feedbackRequest.requestId]: rating }))
withRating(prev, requestId, k) == [prev EXCEPT ![requestId] = k]

\* submitFeedback after its await: try / catch / finally.
FeedbackPostResponse(p) ==
    /\ p \in InFlight("feedbackPost")
    /\ Settled(p)
    /\ pending' = pending \ {p}
    /\ submittingFeedback' = FALSE
    /\ IF p.res.status = "ok"
       THEN /\ ratingsMap' = withRating(ratingsMap, p.requestId, p.rating)
            /\ feedbackRequest' = NoId
       ELSE UNCHANGED <<ratingsMap, feedbackRequest>>
    /\ UNCHANGED <<custRequests, paymentStatuses, mechanicsMap, custIsLoading, custError,
                   rating, custPc>>
    /\ UNCHANGED <<adminVars, mechVars, payVars, authVars>>

----------------------------------------------------------------------------
(* Dashboard (customer) and PaymentModal: payment *)

\* The modal renders: isOpen && request.
PaymentModalShown == CustRendered /\ isPaymentModalOpen /\ paymentRequest # NoId

\* The Pay button of a row: handlePayment.
HandlePayment(i) ==
    /\ Idle
    /\ i \in DOMAIN custRequests
    /\ PayOffered(custRequests[i])
    /\ paymentRequest' = custRequests[i].requestId
    /\ isPaymentModalOpen' = TRUE
    /\ UNCHANGED <<step, pending>>
    /\ UNCHANGED <<adminVars, custVars, mechVars, authVars>>

\* Pay Now: handlePay up to its first await (the 2 s delay).  The closure keeps
\* the request the modal shows.
HandlePay ==
    /\ Idle
    /\ PaymentModalShown
    /\ step = "SELECT"
    /\ CanSend
    /\ step' = "PROCESSING"
    /\ pending' = pending \cup
          {[id |-> NewId, k |-> "payDelay", ep |-> "setTimeout 2000",
            requestId |-> paymentRequest, res |-> NoAnswer]}
    /\ UNCHANGED <<paymentRequest, isPaymentModalOpen>>
    /\ UNCHANGED <<adminVars, custVars, mechVars, authVars>>

\* handlePay after the delay: POST /payments.
PayDelayDone(p) ==
    /\ Idle
    /\ p \in InFlight("payDelay")
    /\ pending' = (pending \ {p}) \cup
          {[id |-> p.id, k |-> "payment", ep |-> PostPayments,
            requestId |-> p.requestId, res |-> NoAnswer]}
    /\ UNCHANGED <<adminVars, custVars, mechVars, payVars, authVars>>

\* handlePay after POST /payments: the status update is sent, or the catch block.
PaymentResponse(p) ==
    /\ p \in InFlight("payment")
    /\ Settled(p)
    /\ IF p.res.status = "ok"
       THEN /\ pending' = (pending \ {p}) \cup
                  {[id |-> p.id, k |-> "payStatus", ep |-> PatchPaid,
                    requestId |-> p.requestId, res |-> NoAnswer]}
            /\ UNCHANGED step
       ELSE /\ pending' = pending \ {p}
            /\ step' = "SELECT"
    /\ UNCHANGED <<paymentRequest, isPaymentModalOpen>>
    /\ UNCHANGED <<adminVars, custVars, mechVars, authVars>>

\* handlePay after the status update: SUCCESS and the 1.5 s timer, or the catch
\* block.
PayStatusResponse(p) ==
    /\ p \in InFlight("payStatus")
    /\ Settled(p)
    /\ IF p.res.status = "ok"
       THEN /\ pending' = (pending \ {p}) \cup
                  {[id |-> p.id, k |-> "payClose", ep |-> "setTimeout 1500",
                    requestId |-> p.requestId, res |-> NoAnswer]}
            /\ step' = "SUCCESS"
       ELSE /\ pending' = pending \ {p}
            /\ step' = "SELECT"
    /\ UNCHANGED <<paymentRequest, isPaymentModalOpen>>
    /\ UNCHANGED <<adminVars, custVars, mechVars, authVars>>

\* An onPaymentSuccess that leaves the list as it is.
unpaidList(prev, requestId) == prev

\* prev.map(...) of onPaymentSuccess.
paidList(prev, requestId) ==
    [j \in DOMAIN prev |->
        IF prev[j].requestId = requestId
        THEN [prev[j] EXCEPT !.status = "PAID", !.paid = TRUE]
        ELSE prev[j]]

\* The 1.5 s timer: onSuccess(request.requestId) and handleClose().
PayCloseTimer(p) ==
    /\ Idle
    /\ p \in InFlight("payClose")
    /\ pending' = pending \ {p}
    /\ custRequests' = paidList(custRequests, p.requestId)
    /\ step' = "SELECT"
    /\ isPaymentModalOpen' = FALSE
    /\ UNCHANGED <<paymentStatuses, mechanicsMap, ratingsMap, custIsLoading, custError,
                   feedbackRequest, rating, submittingFeedback, custPc, paymentRequest>>
    /\ UNCHANGED <<adminVars, mechVars, authVars>>

\* The X of the modal, shown in the SELECT step: handleClose.
ClosePaymentModal ==
    /\ Idle
    /\ PaymentModalShown
    /\ step = "SELECT"
    /\ isPaymentModalOpen' = FALSE
    /\ UNCHANGED <<paymentRequest, step, pending>>
    /\ UNCHANGED <<adminVars, custVars, mechVars, authVars>>

----------------------------------------------------------------------------
(* MechanicDashboard *)

MechInit ==
    /\ jobs = <<>>
    /\ availability = "OFFLINE"
    /\ mechIsLoading = TRUE
    /\ mechError = NoError
    /\ mechPc = "init"

MechRendered == route = MechanicRoute /\ ~mechIsLoading /\ mechError = NoError

\* The Done button is rendered for these rows only.
DoneOffered(job) ==
    MechRendered /\ (job.status = "IN_PROGRESS" \/ job.status = "ASSIGNED")

\* The Navigate button is rendered for every row of the table.
NavigateOffered(job) == MechRendered

MechMount ==
    /\ route = MechanicRoute
    /\ isAuthenticated /\ user = "MECHANIC"
    /\ mechPc = "init"
    /\ mechPc' = "batch"
    /\ pending' = {[id |-> 1, k |-> "myRequests", ep |-> GetMyRequests, res |-> NoAnswer],
                   [id |-> 2, k |-> "me", ep |-> GetMe, res |-> NoAnswer]}
    /\ UNCHANGED <<jobs, availability, mechIsLoading, mechError>>
    /\ UNCHANGED <<adminVars, custVars, payVars, authVars>>

\* .catch(() => ({ data: { availability: 'UNKNOWN' } })) on GET /mechanics/me.
meCatch(res) == IF res.status = "fail" THEN OkObject("UNKNOWN") ELSE res

\* The jobs call is rejected: Promise.all rejects, catch and finally run.
FetchJobsRejected ==
    /\ mechPc = "batch"
    /\ \E call \in InFlight("myRequests") :
        /\ call.res.status = "fail"
        /\ pending' = pending \ {call}
    /\ mechError' = "Failed to load dashboard data"
    /\ mechIsLoading' = FALSE
    /\ mechPc' = "done"
    /\ UNCHANGED <<jobs, availability>>
    /\ UNCHANGED <<adminVars, custVars, payVars, authVars>>

\* GET /mechanics/me settles after the rejection: nobody reads it.
MeSettledLate ==
    /\ mechPc = "done"
    /\ \E call \in InFlight("me") :
        /\ Settled(call)
        /\ pending' = pending \ {call}
    /\ UNCHANGED <<adminVars, custVars, mechVars, payVars, authVars>>

\* Promise.all resolves: setJobs, then meRes.data.availability (which throws on a
\* null body, into the catch block).
FetchJobsDone ==
    /\ mechPc = "batch"
    /\ \E jobsCall \in InFlight("myRequests"), meCall \in InFlight("me") :
        /\ jobsCall.res.status = "ok"
        /\ Settled(meCall)
        /\ jobs' = IF jobsCall.res.isArray
                   THEN StableSort(jobsCall.res.data, byRequestIdDesc) ELSE <<>>
        /\ LET meRes == meCatch(meCall.res)
           IN IF meRes.data = <<>>
              THEN /\ mechError' = "Failed to load dashboard data"
                   /\ UNCHANGED availability
              ELSE /\ availability' = IF meRes.data[1] # "" THEN meRes.data[1]
                                      ELSE availability
                   /\ UNCHANGED mechError
    /\ pending' = {}
    /\ mechIsLoading' = FALSE
    /\ mechPc' = "done"
    /\ UNCHANGED <<adminVars, custVars, payVars, authVars>>

\* completeJob up to its await.  The closure keeps this render's jobs.
CompleteJob(i) ==
    /\ Idle
    /\ CanSend
    /\ i \in DOMAIN jobs
    /\ DoneOffered(jobs[i])
    /\ pending' = pending \cup
          {[id |-> NewId, k |-> "complete", ep |-> PatchPaymentPending,
            requestId |-> jobs[i].requestId, jobs |-> jobs, res |-> NoAnswer]}
    /\ UNCHANGED <<adminVars, custVars, mechVars, payVars, authVars>>

\* A completeJob that leaves the job list as it is.
keepsJobs(js, requestId) == js

\* jobs.map(...) of completeJob, over the jobs the closure holds.
completedList(js, requestId) ==
    [j \in DOMAIN js |->
        IF js[j].requestId = requestId
        THEN [js[j] EXCEPT !.status = "PAYMENT_PENDING"]
        ELSE js[j]]

\* completeJob after its await: setJobs(updated) and updateAvailability('AVAILABLE')
\* up to its await, or the catch block.
CompleteJobResponse(p) ==
    /\ p \in InFlight("complete")
    /\ Settled(p)
    /\ IF p.res.status = "ok"
       THEN /\ jobs' = completedList(p.jobs, p.requestId)
            /\ pending' = (pending \ {p}) \cup
                  {[id |-> p.id, k |-> "availability", ep |-> PatchAvailability,
                    value |-> "AVAILABLE", res |-> NoAnswer]}
            /\ UNCHANGED mechError
       ELSE /\ mechError' = "Failed to update job status"
            /\ pending' = pending \ {p}
            /\ UNCHANGED jobs
    /\ UNCHANGED <<availability, mechIsLoading, mechPc>>
    /\ UNCHANGED <<adminVars, custVars, payVars, authVars>>

\* The availability <select>: updateAvailability up to its await.
UpdateAvailability(value) ==
    /\ Idle
    /\ MechRendered
    /\ CanSend
    /\ value \in {"AVAILABLE", "BUSY", "OFFLINE"}
    /\ value # availability
    /\ pending' = pending \cup
          {[id |-> NewId, k |-> "availability", ep |-> PatchAvailability,
            value |-> value, res |-> NoAnswer]}
    /\ UNCHANGED <<adminVars, custVars, mechVars, payVars, authVars>>

\* updateAvailability after its await.
AvailabilityResponse(p) ==
    /\ p \in InFlight("availability")
    /\ Settled(p)
    /\ pending' = pending \ {p}
    /\ availability' = IF p.res.status = "ok" THEN p.value ELSE availability
    /\ UNCHANGED <<jobs, mechIsLoading, mechError, mechPc>>
    /\ UNCHANGED <<adminVars, custVars, payVars, authVars>>

\* The Retry button of the error view: window.location.reload().
MechReload ==
    /\ Idle
    /\ route = MechanicRoute
    /\ ~mechIsLoading
    /\ mechError # NoError
    /\ jobs' = <<>>
    /\ availability' = "OFFLINE"
    /\ mechIsLoading' = TRUE
    /\ mechError' = NoError
    /\ mechPc' = "init"
    /\ pending' = {}
    /\ UNCHANGED <<adminVars, custVars, payVars, authVars>>

----------------------------------------------------------------------------
(* The backend's answers, bounded *)

DistinctBy(s, Id(_)) == \A i, j \in DOMAIN s : Id(s[i]) = Id(s[j]) => i = j
idOf(m) == m.id
requestIdOf(r) == r.requestId

\* Lists of at most n mechanics of one skill, each with a distance of Dists.
MechanicLists(skill, Dists, n) ==
    {l \in SeqsUpTo({Mechanic(id, skill, d) : id \in MechanicIds, d \in Dists}, n) :
        DistinctBy(l, idOf)}

\* Bodies of a request list: at most n requests of Universe with distinct ids.
RequestBodies(Universe, n) ==
    {b \in SeqsUpTo(Universe, n) : DistinctBy(b, requestIdOf)}

\* The mechanic of a request the backend reports as taken.
mechanicFor(status) ==
    IF status \in {"ASSIGNED", "IN_PROGRESS", "COMPLETED"} THEN 1 ELSE NoId

Init == AdminInit /\ CustInit /\ MechInit /\ AuthInit /\ pending = {}

----------------------------------------------------------------------------
(* Spec: the admin dashboard with towing requests: load, selection, assignment
   and cancellation in any interleaving with their answers. *)

AdminRequests ==
    {RequestItem(id, "TOWING", st, mechanicFor(st), mechanicFor(st), NoCoord, NoCoord) :
        id \in RequestIds, st \in {"CREATED", "PAYMENT_PENDING", "IN_PROGRESS", "CANCELLED"}}

AdminAnswers(p) ==
    CASE p.k = "requests" -> ListAnswers(RequestBodies(AdminRequests, MaxRequests))
      [] p.k = "available" -> ListAnswers(MechanicLists("TOWING", {NoDistance}, MaxMechanics))
      [] p.k = "skill" -> ListAnswers(MechanicLists(p.skill, {NoDistance}, MaxMechanics))
      [] OTHER -> PlainAnswers

Next ==
    \/ Mount
    \/ \E p \in pending : Respond(p, AdminAnswers(p))
    \/ FetchDataRejected
    \/ AvailableSettledLate
    \/ FetchDataBatchDone
    \/ FetchDataSkillsDone
    \/ Reload
    \/ \E i \in 1..MaxRequests : SetSelection(i)
    \/ \E i \in 1..MaxRequests : AssignRequest(i)
    \/ \E p \in pending : AssignResponse(p)
    \/ \E i \in 1..MaxRequests : CancelRequest(i)
    \/ \E p \in pending : CancelResponse(p)

Spec == Init /\ [][Next]_vars

----------------------------------------------------------------------------
(* LoadSpec: the admin dashboard's initial load over requests of every problem
   type, with every answer of the batch and of the skill-only calls. *)

ProblemTypes == {"TOWING", "TIRE_CHANGE", "BATTERY", "LOCKOUT", "MECHANIC", "FUEL",
                 "JUMP_START", ""}

LoadRequests ==
    {RequestItem(id, type, "CREATED", NoId, NoId, NoCoord, NoCoord) :
        id \in RequestIds, type \in ProblemTypes}

LoadAnswers(p) ==
    CASE p.k = "requests" -> ListAnswers(RequestBodies(LoadRequests, MaxRequests))
      [] p.k = "available" -> ListAnswers(MechanicLists("TOWING", {NoDistance}, MaxMechanics))
      [] p.k = "skill" -> ListAnswers(MechanicLists(p.skill, {NoDistance}, MaxMechanics))
      [] OTHER -> PlainAnswers

LoadNext ==
    \/ Mount
    \/ \E p \in pending : Respond(p, LoadAnswers(p))
    \/ FetchDataRejected
    \/ AvailableSettledLate
    \/ FetchDataBatchDone
    \/ FetchDataSkillsDone
    \/ Reload

LoadSpec == Init /\ [][LoadNext]_vars

----------------------------------------------------------------------------
(* ResolveSpec: the admin dashboard with towing requests at several
   coordinates, and the nearest-mechanic resolution of their dropdowns. *)

Latitudes == {NoCoord, 0, 12}
Longitudes == {77}

ResolveRequests ==
    {RequestItem(id, "TOWING", "CREATED", NoId, NoId, lat,
                 IF lat = NoCoord THEN NoCoord ELSE lon) :
        id \in 1..MaxResolved, lat \in Latitudes, lon \in Longitudes}

\* What the distance-aware endpoints report for a mechanic, in metres.
distanceOf(id) ==
    CASE id = 1 -> 5012
      [] id = 2 -> 5006
      [] id = 3 -> 5000
      [] OTHER -> NoDistance

NearestLists(skill) ==
    {l \in SeqsUpTo({Mechanic(id, skill, distanceOf(id)) : id \in 1..MaxNearest},
                    MaxNearestLen) : DistinctBy(l, idOf)}

ResolveAnswers(p) ==
    CASE p.k = "requests" -> ListAnswers(RequestBodies(ResolveRequests, MaxResolved))
      [] p.k = "available" -> ListAnswers(MechanicLists("TOWING", {NoDistance}, MaxMechanics))
      [] p.k = "skill" -> ListAnswers(MechanicLists(p.skill, {NoDistance}, MaxMechanics))
      [] p.k = "byCenter" -> ListAnswers(NearestLists(p.skill))
      [] p.k = "nearest" -> ListAnswers(NearestLists(p.skill))
      [] OTHER -> PlainAnswers

ResolveNext ==
    \/ Mount
    \/ \E p \in pending : Respond(p, ResolveAnswers(p))
    \/ FetchDataRejected
    \/ AvailableSettledLate
    \/ FetchDataBatchDone
    \/ FetchDataSkillsDone
    \/ Reload
    \/ \E i \in 1..MaxResolved : FetchNearestMechanics(i)
    \/ \E p \in pending : ByCenterResponse(p)
    \/ \E p \in pending : NearestResponse(p)

ResolveSpec == Init /\ [][ResolveNext]_vars

----------------------------------------------------------------------------
(* CustSpec: the customer dashboard: load, and the feedback form. *)

CustRequestsUniverse ==
    {ServiceRequest(id, st, 1, name, FALSE) :
        id \in RequestIds, st \in {"PAID", "PAYMENT_PENDING"}, name \in {"", "Asha"}}

\* The ratings of the feedback the backend holds.
StoredRatings == {4}

CustAnswers(p) ==
    CASE p.k = "requestsMe" -> ListAnswers(RequestBodies(CustRequestsUniverse, MaxRequests))
      [] p.k = "paymentStatus" -> {Failure, OkObject(PaymentStatus(FALSE, TRUE)),
                                   OkObject(PaymentStatus(TRUE, FALSE))}
      [] p.k = "publicMechanic" -> {Failure, OkOther, OkObject("Asha")}
      [] p.k = "feedbackGet" -> {Failure, OkArray(<<>>)} \cup {OkArray(<<k>>) : k \in StoredRatings}
      [] OTHER -> PlainAnswers

CustNext ==
    \/ CustMount
    \/ \E p \in pending : Respond(p, CustAnswers(p))
    \/ \E p \in pending : CustRequestsResponse(p)
    \/ CustPaymentStatusesDone
    \/ CustNamesDone
    \/ CustRatingsDone
    \/ CustReload
    \/ \E i \in 1..MaxRequests : OpenFeedback(i)
    \/ \E star \in Stars : SetRating(star)
    \/ CloseFeedback
    \/ SubmitFeedback
    \/ \E p \in pending : FeedbackPostResponse(p)

CustSpec == Init /\ [][CustNext]_vars

----------------------------------------------------------------------------
(* MechSpec: the mechanic dashboard: load, job completion, availability. *)

MechJobs ==
    {AssignedJob(id, st) : id \in RequestIds, st \in {"ASSIGNED", "IN_PROGRESS", "CANCELLED"}}

MechAnswers(p) ==
    CASE p.k = "myRequests" -> ListAnswers(RequestBodies(MechJobs, MaxRequests))
      [] p.k = "me" -> {Failure, OkOther, OkObject("BUSY"), OkObject("")}
      [] OTHER -> PlainAnswers

MechNext ==
    \/ MechMount
    \/ \E p \in pending : Respond(p, MechAnswers(p))
    \/ FetchJobsRejected
    \/ MeSettledLate
    \/ FetchJobsDone
    \/ \E i \in 1..MaxRequests : CompleteJob(i)
    \/ \E p \in pending : CompleteJobResponse(p)
    \/ \E value \in {"AVAILABLE", "BUSY", "OFFLINE"} : UpdateAvailability(value)
    \/ \E p \in pending : AvailabilityResponse(p)
    \/ MechReload

MechSpec == Init /\ [][MechNext]_vars

----------------------------------------------------------------------------
(* AppSpec: the application at the page of the user's role: each dashboard with
   its load and its actions, the payment modal, and a backend that may answer
   401 to any call. *)

AppAdminRequests ==
    {RequestItem(id, "TOWING", "CREATED", NoId, NoId, NoCoord, NoCoord) : id \in RequestIds}

AppCustRequests ==
    {ServiceRequest(id, st, 1, IF id = 1 THEN "" ELSE "Asha", FALSE) :
        id \in RequestIds, st \in {"PAYMENT_PENDING", "PAID"}}

AppJobs == {AssignedJob(id, "IN_PROGRESS") : id \in RequestIds}

AppAnswers(p) ==
    {Unauthorized} \cup
    CASE p.k = "requests" -> ListAnswers(RequestBodies(AppAdminRequests, MaxRequests))
      [] p.k = "available" -> ListAnswers(MechanicLists("TOWING", {NoDistance}, MaxMechanics))
      [] p.k = "skill" -> ListAnswers(MechanicLists(p.skill, {NoDistance}, MaxMechanics))
      [] p.k = "requestsMe" -> ListAnswers(RequestBodies(AppCustRequests, MaxRequests))
      [] p.k = "paymentStatus" -> {Failure, OkObject(PaymentStatus(FALSE, TRUE))}
      [] p.k = "publicMechanic" -> {Failure, OkObject("Asha")}
      [] p.k = "feedbackGet" -> {Failure, OkArray(<<>>)}
      [] p.k = "myRequests" -> ListAnswers(RequestBodies(AppJobs, MaxRequests))
      [] p.k = "me" -> {Failure, OkObject("BUSY")}
      [] OTHER -> PlainAnswers

AppNext ==
    \/ \E p \in pending : Respond(p, AppAnswers(p))
    \/ AdminAuthGuard
    \/ MechAuthGuard
    \/ DashboardRouteGuard
    \/ Mount
    \/ FetchDataRejected
    \/ AvailableSettledLate
    \/ FetchDataBatchDone
    \/ FetchDataSkillsDone
    \/ Reload
    \/ \E i \in 1..MaxRequests : SetSelection(i)
    \/ \E i \in 1..MaxRequests : AssignRequest(i)
    \/ \E p \in pending : AssignResponse(p)
    \/ \E i \in 1..MaxRequests : CancelRequest(i)
    \/ \E p \in pending : CancelResponse(p)
    \/ CustMount
    \/ \E p \in pending : CustRequestsResponse(p)
    \/ CustPaymentStatusesDone
    \/ CustNamesDone
    \/ CustRatingsDone
    \/ CustReload
    \/ \E i \in 1..MaxRequests : OpenFeedback(i)
    \/ \E star \in Stars : SetRating(star)
    \/ CloseFeedback
    \/ SubmitFeedback
    \/ \E p \in pending : FeedbackPostResponse(p)
    \/ \E i \in 1..MaxRequests : HandlePayment(i)
    \/ HandlePay
    \/ \E p \in pending : PayDelayDone(p)
    \/ \E p \in pending : PaymentResponse(p)
    \/ \E p \in pending : PayStatusResponse(p)
    \/ \E p \in pending : PayCloseTimer(p)
    \/ ClosePaymentModal
    \/ MechMount
    \/ FetchJobsRejected
    \/ MeSettledLate
    \/ FetchJobsDone
    \/ \E i \in 1..MaxRequests : CompleteJob(i)
    \/ \E p \in pending : CompleteJobResponse(p)
    \/ \E value \in {"AVAILABLE", "BUSY", "OFFLINE"} : UpdateAvailability(value)
    \/ \E p \in pending : AvailabilityResponse(p)
    \/ MechReload

\* The guards run with the render that follows the change of the auth store.
AppSpec ==
    /\ Init
    /\ [][AppNext]_vars
    /\ WF_vars(AdminAuthGuard)
    /\ WF_vars(MechAuthGuard)
    /\ WF_vars(DashboardRouteGuard)

----------------------------------------------------------------------------
(* Properties: what a step sends and which continuation it runs *)

entriesOf(reqs, id) == {reqs[j] : j \in {j \in DOMAIN reqs : reqs[j].requestId = id}}

\* The continuation awaiting p runs in this step.
Handles(p) == p \in pending /\ Settled(p) /\ p \notin pending'

\* The calls this step sends.
Sent == {q \in pending' \ pending : ~Settled(q)}

----------------------------------------------------------------------------
(* Assignment and cancellation (Spec) *)

\* C1: for every request at most one PATCH /admin/assign is outstanding at any
\* time, whatever was clicked on other requests in between.
C1_AtMostOneAssignOutstanding ==
    \A id \in RequestIds :
        Cardinality({p \in InFlight("assign") : p.requestId = id /\ ~Settled(p)}) <= 1

\* C2: when an assignment or a cancellation succeeds, the request carries its
\* new status and mechanic, and the entries of the other requests, with the
\* updates of the actions that completed earlier, stay as they are.
C2_LaterCompletionKeepsEarlier ==
    [][ /\ \A p \in InFlight("assign") :
            (Handles(p) /\ p.res.status = "ok") =>
                /\ \A r \in entriesOf(requests', p.requestId) :
                      r.status = "IN_PROGRESS"
                /\ \A id \in RequestIds \ {p.requestId} :
                      entriesOf(requests', id) = entriesOf(requests, id)
        /\ \A p \in InFlight("cancel") :
            (Handles(p) /\ p.res.status = "ok") =>
                /\ \A r \in entriesOf(requests', p.requestId) :
                      r.status = "CANCELLED"
                /\ \A id \in RequestIds \ {p.requestId} :
                      (\E r \in entriesOf(requests, id) : r.status = "IN_PROGRESS") =>
                          entriesOf(requests', id) = entriesOf(requests, id)
      ]_vars

\* C3: a request whose status is CANCELLED offers none of assign (admin), pay
\* (customer) and done (mechanic), whatever its mechanic fields, the dropdown
\* selection and the payment-status lookup are.
C3_CancelledOffersNothing ==
    /\ \A r \in Range(requests) : r.status = "CANCELLED" => ~AssignOffered(r)
    /\ \A r \in Range(custRequests) : r.status = "CANCELLED" => ~PayOffered(r)
    /\ \A job \in Range(jobs) : job.status = "CANCELLED" => ~DoneOffered(job)

\* C10: the label of a status is a function of the context and the status:
\* PAYMENT_PENDING is labelled "Payment Pending"; CREATED is labelled
\* "Unassigned" by the admin dashboard and "Request Received" by the customer
\* dashboard.
C10_StatusLabels ==
    /\ \A r \in Range(requests) :
        /\ r.status = "PAYMENT_PENDING" => getStatusLabel(r.status) = "Payment Pending"
        /\ r.status = "CREATED" => getStatusLabel(r.status) = "Unassigned"
    /\ \A r \in Range(custRequests) :
        /\ r.status = "PAYMENT_PENDING" =>
              getStatusLabelCustomer(r.status) = "Payment Pending"
        /\ r.status = "CREATED" =>
              getStatusLabelCustomer(r.status) = "Request Received"

----------------------------------------------------------------------------
(* Nearest-mechanic resolution (ResolveSpec) *)

\* Whether q is the plain-nearest query of the resolution that sent p.
FollowsUp(q, p) ==
    /\ q.ep = GetNearest
    /\ q.request = p.request
    /\ q.skill = p.skill
    /\ q.latitude = p.latitude
    /\ q.longitude = p.longitude

\* What the by-center and skill-only queries have in common in C4 and in its
\* amendment: a resolution starts with the center-aware query; when that query
\* is answered nothing more is sent; when it fails the plain-nearest query of the
\* same request is sent, and nothing else; the plain-nearest query is sent on no
\* other occasion.
ResolutionStart ==
    /\ \A q \in Sent : q.ep = GetByCenter => pending \subseteq pending'
    /\ \A p \in InFlight("byCenter") :
          Handles(p) =>
              IF p.res.status = "fail"
              THEN Cardinality(Sent) = 1 /\ \A q \in Sent : FollowsUp(q, p)
              ELSE Sent = {}
    /\ \A q \in Sent :
          q.ep = GetNearest =>
              \E p \in InFlight("byCenter") :
                  Handles(p) /\ p.res.status = "fail" /\ FollowsUp(q, p)

GoesBefore(a, b) ==
    IF a.distance # NoDistance /\ b.distance # NoDistance
    THEN a.distance < b.distance \/ (a.distance = b.distance /\ a.id < b.id)
    ELSE IF a.distance = NoDistance /\ b.distance = NoDistance THEN a.id < b.id
    ELSE a.distance # NoDistance

\* C5: the candidate list stored for a request is ordered ascending by distance,
\* mechanics without a distance last, ties by ascending id.
C5_StoredListOrdered ==
    \A r \in Range(requests) :
        requestKey(r) \in DOMAIN skilledMechanics =>
            LET stored == skilledMechanics[requestKey(r)]
            IN \A i, j \in DOMAIN stored : i < j => GoesBefore(stored[i], stored[j])

\* C6: over the mechanics of every answer of a distance-aware query the
\* comparator is antisymmetric and transitive.
C6_ComparatorIsTotalOrder ==
    \A p \in InFlight("byCenter") \cup InFlight("nearest") :
        LET S == Range(arrayOrEmpty(p.res))
        IN /\ \A a, b \in S :
                compareMechanics(a, b) < 0 <=> compareMechanics(b, a) > 0
           /\ \A a, b, c \in S :
                (compareMechanics(a, b) < 0 /\ compareMechanics(b, c) < 0) =>
                    compareMechanics(a, c) < 0

----------------------------------------------------------------------------
(* The initial load of the admin dashboard (LoadSpec) *)

\* The table of C7.
SkillTable(problemType) ==
    CASE problemType = "TOWING" -> "TOWING"
      [] problemType = "TIRE_CHANGE" -> "TIRE_SPECIALIST"
      [] problemType = "BATTERY" -> "BATTERY_EXPERT"
      [] problemType = "LOCKOUT" -> "LOCKSMITH"
      [] problemType \in {"MECHANIC", "FUEL"} -> "GENERAL_MECHANIC"
      [] OTHER -> problemType

\* C7: every skill-only query asks for the skill the table gives for its
\* problem type, and for the problem type itself when the table has no row.
C7_SkillOfEveryQuery ==
    /\ \A type \in ProblemTypes : mapProblemTypeToSkill(type) = SkillTable(type)
    /\ \A p \in InFlight("skill") : p.skill = SkillTable(p.type)

\* Queries for a fuel request and for a request of an unknown type are in flight.
C7_FuelAndUnknownQueried ==
    /\ \E p \in InFlight("skill") : p.type = "FUEL" /\ p.skill = "GENERAL_MECHANIC"
    /\ \E p \in InFlight("skill") : p.type = "JUMP_START" /\ p.skill = "JUMP_START"

\* What C8 and its amendment have in common: when the requests call succeeds the
\* load goes on with the fetched requests in the list, the mechanics call's
\* array as the pool (no mechanic when that call failed) and no page-level
\* error; the skill-only calls change none of these.
RequestsApplied ==
    /\ (loadPc = "batch" /\ loadPc' # "batch") =>
          \A reqCall \in InFlight("requests"), mechCall \in InFlight("available") :
              (reqCall.res.status = "ok" /\ Settled(mechCall)) =>
                  /\ loadPc' = "skills"
                  /\ error' = NoError
                  /\ Len(requests') = Len(arrayOrEmpty(reqCall.res))
                  /\ Range(requests') = Range(arrayOrEmpty(reqCall.res))
                  /\ mechanics' = IF mechCall.res.status = "ok" /\ mechCall.res.isArray
                                  THEN mechCall.res.data ELSE <<>>
    /\ (loadPc = "skills" /\ loadPc' = "done") =>
          /\ ~isLoading'
          /\ error' = NoError
          /\ UNCHANGED <<requests, mechanics>>

\* C8 (amended): if the mechanics call fails and the requests call succeeds the
\* load ends with the fetched requests, an empty pool and no page-level error;
\* a failure of the requests call ends the load with the page-level error, and
\* the mechanics call's result is not applied.
C8_PartialBatchAmended ==
    [][ /\ RequestsApplied
        /\ (loadPc = "batch" /\ loadPc' # "batch") =>
              \A reqCall \in InFlight("requests") :
                  reqCall.res.status = "fail" =>
                      /\ error' = "Failed to load admin data"
                      /\ ~isLoading'
                      /\ requests' = <<>>
                      /\ mechanics' = <<>>
        /\ (loadPc = "done" /\ loadPc' = "done") => UNCHANGED <<requests, mechanics, error>>
      ]_vars

\* C8: if the mechanics call fails and the requests call succeeds the load ends
\* with the fetched requests, an empty pool and no page-level error; a failure
\* of one call of the batch never prevents the other call's result from being
\* applied.
C8_PartialBatch ==
    [][ /\ RequestsApplied
        /\ \A mechCall \in InFlight("available") :
              Handles(mechCall) => mechanics' = arrayOrEmpty(mechCall.res)
      ]_vars

\* The requests call has answered with requests and the mechanics call has failed.
C8_MechanicsFailedRequestsFetched ==
    /\ loadPc = "batch"
    /\ \E reqCall \in InFlight("requests") :
          reqCall.res.status = "ok" /\ reqCall.res.data # <<>>
    /\ \E mechCall \in InFlight("available") : mechCall.res.status = "fail"

----------------------------------------------------------------------------
(* Feedback on the customer dashboard (CustSpec) *)

\* C9: a PAID request without a recorded rating offers Rate; when a feedback
\* submission with rating k succeeds, k is one of 1..5 and the row shows
\* "k / 5"; a row that shows a rating never offers Rate again.
C9_RateUntilRated ==
    /\ [](CustRendered =>
            \A r \in Range(custRequests) :
                (r.status = "PAID" /\ ratingsMap[r.requestId] = NoRating) =>
                    RateOffered(r))
    /\ [][ /\ \A p \in InFlight("feedbackPost") :
                (Handles(p) /\ p.res.status = "ok") =>
                    /\ p.rating \in 1..5
                    /\ CustRendered'
                    /\ \E r \in Range(custRequests') : r.requestId = p.requestId
                    /\ \A r \in Range(custRequests') :
                          r.requestId = p.requestId =>
                              actionCell(r)' = [kind |-> "rated",
                                                text |-> ToString(p.rating) \o " / 5"]
           /\ \A r \in Range(custRequests) :
                (CustRendered /\ actionCell(r).kind = "rated") =>
                    /\ r \in Range(custRequests')
                    /\ actionCell(r)'.kind = "rated"
                    /\ ~RateOffered(r)'
         ]_vars

\* A PAID request shows a rating that a submission of this session has given it.
C9_RatedBySubmission ==
    /\ CustRendered
    /\ \E r \in Range(custRequests) :
          /\ r.status = "PAID"
          /\ ratingsMap[r.requestId] \in Stars \ StoredRatings
          /\ actionCell(r).kind = "rated"

----------------------------------------------------------------------------
(* The page-level error and the outcome of the row actions (Spec) *)

\* The messages the initial loads set.
LoadErrors == {"Failed to load admin data", "Failed to load dashboard data"}

\* The calls of the row actions.
RowActionKinds == {"assign", "cancel", "complete", "feedbackPost"}

\* C11: the page-level error is entered only when the initial bulk load fails:
\* the error of a page is absent or a load's message, and the step that handles
\* the failure of a row action (assign, cancel, mechanic done, feedback) sets no
\* page-level error and leaves the page rendered.
C11_ErrorOnlyFromLoad ==
    /\ [](/\ error \in {NoError} \cup LoadErrors
          /\ custError \in {NoError} \cup LoadErrors
          /\ mechError \in {NoError} \cup LoadErrors)
    /\ [][ \A p \in pending :
              (Handles(p) /\ p.k \in RowActionKinds /\ p.res.status = "fail") =>
                  /\ <<error, custError, mechError>>' = <<error, custError, mechError>>
                  /\ (Rendered => Rendered')
         ]_vars

\* C12: after an assignment of mechanic m to request r succeeds, the entry of r
\* has status IN_PROGRESS and its mechanic reference identifies m, whether or
\* not the fetched pool of available mechanics holds m.
C12_AssignedMechanicIdentified ==
    [][ \A p \in InFlight("assign") :
            (Handles(p) /\ p.res.status = "ok") =>
                \A r \in entriesOf(requests', p.requestId) :
                    r.status = "IN_PROGRESS" /\ r.mechanic = p.mechanicId
      ]_vars

\* The calls of the actions that change domain state: assign, cancel, the two
\* calls of a payment, feedback, mechanic done.
ActionKinds == {"assign", "cancel", "payment", "payStatus", "feedbackPost", "complete"}

C14_MarkerReleasedAndRetry ==
    /\ [](InFlight("assign") = {} => assigningId = NoId)
    /\ [][ \A p \in InFlight("assign") :
              (Handles(p) /\ p.res.status = "fail") =>
                  /\ assigningId' = NoId
                  /\ \A r \in entriesOf(requests', p.requestId) :
                        (/\ r.status = "CREATED"
                         /\ r.mechanic = NoId
                         /\ selection'[r.requestId] # NoId) => AssignOffered(r)'
         ]_vars

----------------------------------------------------------------------------
(* Session teardown (AppSpec) *)

\* C15: whenever a call has answered 401 the session is torn down before the
\* caller handles the answer (the calls whose failure is caught and defaulted
\* included), and the admin and mechanic dashboards then go to the login route.
C15_UnauthorizedTearsDown ==
    /\ [](\A p \in pending :
            p.res = Unauthorized =>
                ~isAuthenticated /\ user = NoUser /\ token = NoToken)
    /\ ((~isAuthenticated /\ route \in {AdminRoute, MechanicRoute}) ~> route = LoginRoute)

\* The admin dashboard was sent to the login route while the mechanics call of
\* its load, whose failure is caught and defaulted, holds a 401.
C15_RedirectedAfterCaught401 ==
    /\ route = LoginRoute
    /\ ~isAuthenticated
    /\ \E p \in InFlight("available") : p.res = Unauthorized

----------------------------------------------------------------------------
(* GateSpec: the customer dashboard with requests of every status and a
   payment-status lookup that may answer anything: the load, and the payment
   modal. *)

GateRequests ==
    {ServiceRequest(id, st, 1, "Asha", paid) :
        id \in RequestIds, st \in Statuses, paid \in BOOLEAN}

GateAnswers(p) ==
    CASE p.k = "requestsMe" -> ListAnswers(RequestBodies(GateRequests, MaxRequests))
      [] p.k = "paymentStatus" ->
            {Failure} \cup {OkObject(PaymentStatus(paid, payable)) :
                                paid \in BOOLEAN, payable \in BOOLEAN}
      [] p.k = "feedbackGet" -> {Failure, OkArray(<<>>)} \cup {OkArray(<<k>>) : k \in StoredRatings}
      [] OTHER -> PlainAnswers

GateNext ==
    \/ CustMount
    \/ \E p \in pending : Respond(p, GateAnswers(p))
    \/ \E p \in pending : CustRequestsResponse(p)
    \/ CustPaymentStatusesDone
    \/ CustRatingsDone
    \/ CustReload
    \/ \E i \in 1..MaxRequests : HandlePayment(i)
    \/ HandlePay
    \/ \E p \in pending : PayDelayDone(p)
    \/ \E p \in pending : PaymentResponse(p)
    \/ \E p \in pending : PayStatusResponse(p)
    \/ \E p \in pending : PayCloseTimer(p)
    \/ ClosePaymentModal

GateSpec == Init /\ [][GateNext]_vars

----------------------------------------------------------------------------
(* C16 *)

\* The answer of the payment-status lookup of a request the dashboard holds.
pStatusOf(r) == paymentStatuses[r.requestId]

\* C16: on the customer dashboard Pay is offered for a request only when its
\* status is exactly PAYMENT_PENDING and no payment is recorded for it; when the
\* payment-status lookup of the request succeeded, Pay is offered exactly when
\* the answer says the request can be paid and is not paid, and when the lookup
\* failed, exactly when the status is PAYMENT_PENDING.
C16_PayOnlyWhenPaymentPending ==
    \A i \in DOMAIN custRequests :
        LET r == custRequests[i]
        IN /\ PayOffered(r) => r.status = "PAYMENT_PENDING" /\ ~r.paid
           /\ CustRendered /\ hasPaymentStatus(r) =>
                 (PayOffered(r) <=> pStatusOf(r).canPay /\ ~pStatusOf(r).isPaid)
           /\ CustRendered /\ ~hasPaymentStatus(r) =>
                 (PayOffered(r) <=> r.status = "PAYMENT_PENDING" /\ ~r.paid)

----------------------------------------------------------------------------
(* C17 *)

\* C17: on the customer dashboard Rate is offered for a request only if its
\* status is PAID or COMPLETED and no rating is recorded for it, whatever the
\* payment-status lookup answered; never for CREATED, PAYMENT_PENDING, ASSIGNED,
\* IN_PROGRESS or CANCELLED.
C17_RateOnlyWhenPaidOrCompleted ==
    \A i \in DOMAIN custRequests :
        LET r == custRequests[i]
        IN RateOffered(r) =>
              /\ r.status \in {"PAID", "COMPLETED"}
              /\ ratingsMap[r.requestId] = NoRating

----------------------------------------------------------------------------
(* C18 *)

\* C18: the admin's Assign control of a request is enabled only if the request
\* has no mechanic attached (neither a mechanic nor a mechanicId), its status is
\* CREATED, a mechanic is selected in its dropdown and no assignment for it is
\* in flight.
C18_AssignOnlyForCreated ==
    \A i \in DOMAIN requests :
        LET r == requests[i]
        IN AssignOffered(r) =>
              /\ r.mechanic = NoId
              /\ r.mechanicId = NoId
              /\ r.status = "CREATED"
              /\ selection[r.requestId] # NoId
              /\ \A p \in InFlight("assign") : p.requestId # r.requestId

----------------------------------------------------------------------------
(* C19 *)

\* C19: on the mechanic dashboard the Navigate and the Done action of a job are
\* offered only while the job's status is IN_PROGRESS or ASSIGNED.
C19_JobActionsOnlyWhileActive ==
    \A i \in DOMAIN jobs :
        NavigateOffered(jobs[i]) \/ DoneOffered(jobs[i]) =>
            jobs[i].status \in {"IN_PROGRESS", "ASSIGNED"}

----------------------------------------------------------------------------
(* C20 *)

\* C20: once the local status of a request is CANCELLED, no admin action and no
\* network response changes its status or its mechanic: while the table keeps
\* the request, its entry stays CANCELLED with the same mechanic.
C20_CancelledIsAbsorbing ==
    [][\A i \in DOMAIN requests :
          requests[i].status = "CANCELLED" =>
              \A r \in entriesOf(requests', requests[i].requestId) :
                  /\ r.status = "CANCELLED"
                  /\ r.mechanic = requests[i].mechanic]_vars

----------------------------------------------------------------------------
(* C21 *)

\* The dropdown of the row renders the disabled option "No skilled mechanics
\* available".
NoMechanicsShown(r) == Rendered /\ dropdownOptions(skilledMechanics, r) = <<>>

\* C21: the dropdown of a request shows "No skilled mechanics available" only
\* when every source is without candidates: when the skill-level list of the
\* request's problem type is non-empty the dropdown offers candidates, also when
\* the per-request distance-aware list is empty.
C21_NoneOnlyWhenAllSourcesEmpty ==
    \A i \in DOMAIN requests :
        LET r == requests[i]
        IN NoMechanicsShown(r) =>
              \/ r.problemType \notin DOMAIN skilledMechanics
              \/ skilledMechanics[r.problemType] = <<>>

----------------------------------------------------------------------------
(* ShareSpec: the admin dashboard with located towing requests that share their
   problem type: the load and the nearest-mechanic resolution of every row. *)

ShareRequests ==
    {RequestItem(id, "TOWING", "CREATED", NoId, NoId, lat, lon) :
        id \in RequestIds, lat \in {12}, lon \in Longitudes}

\* The center-aware endpoint reports a mechanic with the distance of its service
\* center, the plain one with the mechanic's own distance.
ShareCenterLists(skill) == MechanicLists(skill, {distanceOf(1)}, MaxMechanics)
ShareNearestLists(skill) == MechanicLists(skill, {distanceOf(2)}, MaxMechanics)

ShareAnswers(p) ==
    CASE p.k = "requests" -> ListAnswers(RequestBodies(ShareRequests, MaxRequests))
      [] p.k = "available" -> ListAnswers(MechanicLists("TOWING", {NoDistance}, MaxMechanics))
      [] p.k = "skill" -> ListAnswers(MechanicLists(p.skill, {NoDistance}, MaxMechanics))
      [] p.k = "byCenter" -> ListAnswers(ShareCenterLists(p.skill))
      [] p.k = "nearest" -> ListAnswers(ShareNearestLists(p.skill))
      [] OTHER -> PlainAnswers

ShareNext ==
    \/ Mount
    \/ \E p \in pending : Respond(p, ShareAnswers(p))
    \/ FetchDataRejected
    \/ AvailableSettledLate
    \/ FetchDataBatchDone
    \/ FetchDataSkillsDone
    \/ Reload
    \/ \E i \in 1..MaxRequests : FetchNearestMechanics(i)
    \/ \E p \in pending : ByCenterResponse(p)
    \/ \E p \in pending : NearestResponse(p)

ShareSpec == Init /\ [][ShareNext]_vars

----------------------------------------------------------------------------
(* C22 *)

\* C22: a distance-ranked list resolved for request r is stored under the key of
\* r alone: the step that stores it changes no other entry of the cache, and
\* the candidates offered for any other request of the same problem type are
\* what they were.
C22_ResolutionStaysWithItsRequest ==
    [][\A p \in InFlight("byCenter") \cup InFlight("nearest") :
          Handles(p) =>
              /\ \A key \in DOMAIN skilledMechanics \ {requestKey(p.request)} :
                    /\ key \in DOMAIN skilledMechanics'
                    /\ skilledMechanics'[key] = skilledMechanics[key]
              /\ DOMAIN skilledMechanics' \subseteq
                    DOMAIN skilledMechanics \cup {requestKey(p.request)}
              /\ \A i \in DOMAIN requests :
                    (/\ requests[i].requestId # p.request.requestId
                     /\ requests[i].problemType = p.request.problemType) =>
                        dropdownOptions(skilledMechanics', requests[i]) =
                            dropdownOptions(skilledMechanics, requests[i])]_vars

\* Two requests of one problem type are in the table; a non-empty distance-ranked
\* list is stored for the first and the second is offered other candidates.
C22_ResolvedForOneOfTwo ==
    \E i, j \in DOMAIN requests :
        /\ requests[i].requestId # requests[j].requestId
        /\ requests[i].problemType = requests[j].problemType
        /\ requestKey(requests[i]) \in DOMAIN skilledMechanics
        /\ skilledMechanics[requestKey(requests[i])] # <<>>
        /\ dropdownOptions(skilledMechanics, requests[j]) # <<>>
        /\ dropdownOptions(skilledMechanics, requests[j]) #
              skilledMechanics[requestKey(requests[i])]

----------------------------------------------------------------------------
(* C23 *)

\* A successful answer whose body is absent or not an array.
NotAList(res) == res.status = "ok" /\ ~res.isArray

\* C23: for every list endpoint of an initial load (/requests/me,
\* /admin/requests, /admin/mechanics/available, /mechanics/my-requests), a
\* successful answer whose body is absent or not an array gives an empty list
\* and no error.
C23_NonArrayIsEmptyList ==
    [][/\ \A p \in InFlight("requestsMe") :
             Handles(p) /\ NotAList(p.res) =>
                 custRequests' = <<>> /\ custError' = NoError
       /\ \A p \in InFlight("requests") :
             loadPc = "batch" /\ Handles(p) /\ NotAList(p.res) =>
                 requests' = <<>> /\ error' = NoError
       /\ \A p \in InFlight("available") :
             loadPc = "batch" /\ Handles(p) /\ NotAList(p.res) =>
                 mechanics' = <<>> /\ error' = NoError
       /\ \A p \in InFlight("myRequests") :
             Handles(p) /\ NotAList(p.res) =>
                 jobs' = <<>> /\ mechError' = NoError]_vars

----------------------------------------------------------------------------
(* C24 *)

\* The request ids of a list, in its order.
idsOf(list) == [j \in DOMAIN list |-> list[j].requestId]

Descending(list) ==
    \A j \in 1..(Len(list) - 1) : list[j].requestId > list[j + 1].requestId

\* list holds exactly the elements of data.
SameRequests(data, list) == Len(list) = Len(data) /\ Range(list) = Range(data)

\* The entries of after that differ from the entry of before at their place.
Replaced(before, after) == {j \in DOMAIN before : after[j] # before[j]}

\* The lists are ordered by descending requestId; the load stores exactly the
\* fetched requests; afterwards no step reorders, drops or duplicates entries.
ListsKeepFetchedRequests ==
    /\ [](Descending(requests) /\ Descending(custRequests))
    /\ [][/\ \A p \in InFlight("requests") :
                (loadPc = "batch" /\ loadPc' = "skills" /\ p.res.isArray) =>
                    SameRequests(p.res.data, requests')
          /\ \A p \in InFlight("requestsMe") :
                (Handles(p) /\ p.res.status = "ok" /\ p.res.isArray) =>
                    SameRequests(p.res.data, custRequests')
          /\ (loadPc # "batch" /\ loadPc' # "init") => idsOf(requests') = idsOf(requests)
          /\ (custPc # "me" /\ custPc' # "init") =>
                idsOf(custRequests') = idsOf(custRequests)]_vars

\* C24: after the initial load the request list of the customer and of the admin
\* dashboard is ordered by descending requestId and holds exactly the fetched
\* requests; an assign, cancel or payment update replaces one entry in place and
\* never reorders, drops or duplicates entries.
C24_UpdatesReplaceOneEntry ==
    /\ ListsKeepFetchedRequests
    /\ [][/\ (loadPc # "batch" /\ loadPc' # "init" /\ idsOf(requests') = idsOf(requests)) =>
                Cardinality(Replaced(requests, requests')) <= 1
          /\ (custPc # "me" /\ custPc' # "init"
                /\ idsOf(custRequests') = idsOf(custRequests)) =>
                Cardinality(Replaced(custRequests, custRequests')) <= 1]_vars

----------------------------------------------------------------------------
(* MechFairSpec: MechSpec where every call is eventually answered (by success or
   by failure, axios rejects a call that gets no answer) and every continuation
   of an answered call eventually runs.  The answer of a call can be held back
   while a continuation runs, hence strong fairness per call. *)

MechFairSpec ==
    /\ Init
    /\ [][MechNext]_vars
    /\ \A id \in 1..MaxPending :
          SF_vars(\E p \in pending : p.id = id /\ Respond(p, MechAnswers(p)))
    /\ WF_vars(FetchJobsRejected)
    /\ WF_vars(MeSettledLate)
    /\ WF_vars(FetchJobsDone)
    /\ WF_vars(\E p \in pending : CompleteJobResponse(p))
    /\ WF_vars(\E p \in pending : AvailabilityResponse(p))

----------------------------------------------------------------------------
(* C25 *)

\* A job the mechanic has marked as done.
JobDone == \E j \in DOMAIN jobs : jobs[j].status = "PAYMENT_PENDING"

\* completeJob after a successful status update: the job is PAYMENT_PENDING
\* locally and the availability update to AVAILABLE is sent.
DoneStoresAndFrees ==
    [][\A p \in InFlight("complete") :
          (Handles(p) /\ p.res.status = "ok") =>
              /\ \E r \in entriesOf(jobs', p.requestId) : TRUE
              /\ \A r \in entriesOf(jobs', p.requestId) : r.status = "PAYMENT_PENDING"
              /\ \E q \in Sent : q.ep = PatchAvailability /\ q.value = "AVAILABLE"]_vars

----------------------------------------------------------------------------
(* C26 *)

\* The steps of the payment flow in the order they are taken.
FlowOrder ==
    {<<"SELECT", "PROCESSING">>, <<"PROCESSING", "SUCCESS">>, <<"SUCCESS", "SELECT">>,
     <<"PROCESSING", "SELECT">>}

\* C26: when the customer pays a request and both the payment submission and the
\* status update succeed, the flow goes SELECT, PROCESSING, SUCCESS and back to
\* SELECT with the modal closed; the request is then PAID locally, Pay is no
\* longer offered for it and Rate is.
C26_PaidUnlocksRate ==
    [][/\ step' # step => <<step, step'>> \in FlowOrder
       /\ \A q \in Sent : q.k = "payDelay" => step = "SELECT" /\ step' = "PROCESSING"
       /\ \A p \in InFlight("payStatus") :
             (Handles(p) /\ p.res.status = "ok") =>
                 step = "PROCESSING" /\ step' = "SUCCESS"
       /\ \A p \in InFlight("payClose") :
             p \notin pending' =>
                 /\ step = "SUCCESS" /\ step' = "SELECT"
                 /\ ~isPaymentModalOpen'
                 /\ \E r \in entriesOf(custRequests', p.requestId) : TRUE
                 /\ \A r \in entriesOf(custRequests', p.requestId) :
                       /\ r.status = "PAID"
                       /\ (~PayOffered(r))'
                       /\ RateOffered(r)']_vars

\* A payment went through: the request the modal was opened for is PAID, the
\* modal is closed at SELECT and the row offers Rate.
C26_PaidAndRateOffered ==
    \E i \in DOMAIN custRequests :
        /\ custRequests[i].requestId = paymentRequest
        /\ custRequests[i].status = "PAID"
        /\ ~isPaymentModalOpen
        /\ step = "SELECT"
        /\ RateOffered(custRequests[i])
        /\ pending = {}

----------------------------------------------------------------------------
(* C27 *)

\* availableMechanics.filter(m => m.skillType === skill)
poolWithSkill(pool, type) ==
    LET hasSkill(m) == m.skillType = mapProblemTypeToSkill(type)
    IN SelectSeq(pool, hasSkill)

\* C27: when the skill-only query of a problem type fails during the admin load,
\* the skill-level list stored for the type is the all-available pool filtered
\* to the mechanics whose skillType is the mapped skill.
C27_FailedSkillQueryUsesPool ==
    [][(loadPc = "skills" /\ loadPc' = "done") =>
          \A p \in InFlight("skill") :
              p.res.status = "fail" =>
                  /\ p.type \in DOMAIN skilledMechanics'
                  /\ skilledMechanics'[p.type] = poolWithSkill(mechanics, p.type)]_vars

----------------------------------------------------------------------------
(* C28 *)

\* Both coordinates of the request are present.
Located(r) == r.latitude # NoCoord /\ r.longitude # NoCoord

\* C28: for every request whose latitude and longitude are both present, the
\* value 0 included, a click on its dropdown issues the center-aware nearest
\* query with exactly those coordinates; the query is skipped only when a
\* coordinate is absent.
C28_LocatedRequestsAreResolved ==
    /\ [](\A i \in DOMAIN requests :
             Rendered => (resolvesByDistance(requests[i]) <=> Located(requests[i])))
    /\ [][\A q \in Sent :
             q.k = "byCenter" =>
                 /\ q.ep = GetByCenter
                 /\ \E i \in DOMAIN requests :
                       /\ q.request = requests[i]
                       /\ q.latitude = requests[i].latitude
                       /\ q.longitude = requests[i].longitude]_vars

----------------------------------------------------------------------------
(* C29 *)

\* POST /payments for the request has succeeded: handlePay is at its status
\* update.
PaymentPosted(id) == \E p \in InFlight("payStatus") : p.requestId = id

\* A POST /payments for the request is in flight.
PaymentPosting(id) == \E p \in InFlight("payment") : p.requestId = id

\* C29: once a POST /payments for a request has succeeded, no other POST
\* /payments is sent for that request, also when the status update that follows
\* fails and the modal returns to the method selection.
C29_PaymentPostedOnce ==
    \A id \in RequestIds : [](PaymentPosted(id) => []~PaymentPosting(id))

----------------------------------------------------------------------------
(* C30 *)

\* A non-empty list as the center-aware endpoint reports it.
CenterAware(list) ==
    list # <<>> /\ \A m \in Range(list) : m.distance = distanceOf(1)

\* C30: when several resolutions of one request are in flight and their answers
\* arrive in any order, a center-aware list stored for the request is not
\* replaced by the plain-nearest answer of a resolution started earlier.  The
\* resolution of p started when nothing was stored for the request and no other
\* resolution of it was in flight: a center-aware list stored now is the result
\* of a resolution started after p's, and p's answer leaves it in place.
C30_EarlierResolutionLosesRace ==
    [][\A p \in InFlight("nearest") :
          (/\ Handles(p)
           /\ p.first
           /\ requestKey(p.request) \in DOMAIN skilledMechanics
           /\ CenterAware(skilledMechanics[requestKey(p.request)])) =>
              /\ requestKey(p.request) \in DOMAIN skilledMechanics'
              /\ skilledMechanics'[requestKey(p.request)] =
                    skilledMechanics[requestKey(p.request)]]_vars

====
